---- MODULE Spec2Model ----
(***************************************************************************)
(* A model of bot/daily_logger.py (DailyMarketLogger): the rotating daily  *)
(* CSV writer, its rolling sample buffer, its re-entrant lock and its      *)
(* self-rescheduling midnight timer, driven by an orchestrator thread      *)
(* ("main") and by the timer thread ("timer").                             *)
(*                                                                         *)
(* Time is the wall clock of the time provider in whole seconds counted    *)
(* from 2026-01-06 00:00:00 local time (the date the repository's test     *)
(* uses).  Series values are floats with integral value n, written n.0 by  *)
(* Python; the values used are 0, 1 and 2, on which the float arithmetic   *)
(* of log() is exact.  A file is the sequence of its rows and a row is    *)
(* the sequence of its fields (the text between the commas).  The writer   *)
(* runs with flush_each_write on (the default): every write is followed by *)
(* a flush. file.write puts a row into the handle's buffer and file.flush  *)
(* moves the buffer to the file; the operating system may accept only the  *)
(* first bytes of a flush, or none (OSError): the file then ends where the *)
(* accepted bytes end, between two rows or inside a row, and the rest      *)
(* stays in the handle until a later flush is accepted. log() and          *)
(* rotate_now() are split where they read the clock or do file I/O while   *)
(* holding the lock, so that the clock can advance and the other thread    *)
(* can try to run in between.                                              *)
(*                                                                         *)
(* Spec (both threads around a midnight), SpecMain (the orchestrator alone *)
(* around a midnight, file.write and open failing as well), SpecSuspend    *)
(* (the timer thread with the process suspended across a midnight),        *)
(* SpecLog (the orchestrator alone, logging over several seconds, each     *)
(* log() call one step) and SpecRotate (the same with rotations between    *)
(* the calls) drive the writer. SpecSignals calls the trend classifier of  *)
(* bot/signals.py and the orchestrator's use of it in main.py.             *)
(***************************************************************************)
EXTENDS Integers, Sequences, FiniteSets, TLC

\* ---------------------------------------------------------------- bounds
MaxClock == 86401          \* last clock reading: 2026-01-07 00:00:01
MaxOps == 2                \* calls the orchestrator makes (log, rotate_now, close)
MaxLogClock == 86407       \* last clock reading of the logging runs: 00:00:07
MaxLogs == 3               \* calls the orchestrator makes in the logging runs

\* ------------------------------------------------------ program constants
SecondsPerDay == 86400
SafetyMargin == 5
FirstDayOfMonth == 6

StartClock == SecondsPerDay - 1
\* last clock reading of the constructor: 2026-01-07 00:00:00
LastStartClock == StartClock + 1

Threads == {"main", "timer"}

\* Samples the orchestrator may pass to log(spx, vix).
Samples == {<<1, 0>>, <<2, 1>>}

\* The sample it passes in the runs around midnight.
MidnightSamples == {<<1, 0>>}

\* Configured rolling_horizons_seconds tuples (LoggerOptions).
HorizonConfigs == {<< >>, <<2, 0, -1, 1, 2>>}

\* Values of include_percent_columns tried with a horizon tuple: without a
\* positive horizon the option has no effect.
PercentOptions(cfg) == IF \A i \in 1..Len(cfg) : cfg[i] <= 0 THEN {TRUE} ELSE BOOLEAN

\* Optional values: None is the empty tuple, Some(v) the one-element tuple.
None == << >>
Some(v) == <<v>>
IsNone(o) == o = << >>
Get(o) == o[1]

\* ------------------------------------------------- formatting (strftime)
Pad2(n) == IF n < 10 THEN "0" \o ToString(n) ELSE ToString(n)

DayOf(t) == t \div SecondsPerDay
SecOfDay(t) == t % SecondsPerDay

\* _ny_date_str: strftime("%Y.%m.%d")
ny_date_str(now) == "2026.01." \o Pad2(FirstDayOfMonth + DayOf(now))

\* _ny_time_str: strftime("%H.%M.%S")
ny_time_str(now) ==
    LET s == SecOfDay(now)
    IN  Pad2(s \div 3600) \o "." \o Pad2((s % 3600) \div 60) \o "." \o Pad2(s % 60)

\* fmt_ts_ms: strftime("%Y-%m-%d %H:%M:%S.%f")[:-3]; the clock has no
\* sub-second part, so %f is 000000 and the cut leaves 000.
fmt_ts_ms(dt) ==
    LET s == SecOfDay(dt)
    IN  "2026-01-" \o Pad2(FirstDayOfMonth + DayOf(dt)) \o " "
        \o Pad2(s \div 3600) \o ":" \o Pad2((s % 3600) \div 60) \o ":" \o Pad2(s % 60)
        \o ".000"

\* f"{x}" of a float with integral value n
FmtFloat(n) == ToString(n) \o ".0"

\* "" if x is None else f"{x}"
FmtOpt(o) == IF IsNone(o) THEN "" ELSE FmtFloat(Get(o))

\* ------------------------------------------------------------- horizons
RECURSIVE SortedSeq(_)
SortedSeq(S) ==
    IF S = {} THEN << >>
    ELSE LET m == CHOOSE x \in S : \A y \in S : x <= y
         IN  <<m>> \o SortedSeq(S \ {m})

Horizons_nonneg(cfg) == SortedSeq({cfg[i] : i \in {j \in 1..Len(cfg) : cfg[j] >= 0}})

\* sorted({int(h) for h in options.rolling_horizons_seconds if int(h) > 0})
Horizons(cfg) == SortedSeq({cfg[i] : i \in {j \in 1..Len(cfg) : cfg[j] > 0}})

\* max(self._horizons) if self._horizons else 0
MaxHorizon(hs) == IF Len(hs) = 0 THEN 0 ELSE hs[Len(hs)]

\* --------------------------------------------------------------- header
RECURSIVE HeaderCols(_, _)
HeaderCols(hs, pct) ==
    IF Len(hs) = 0 THEN << >>
    ELSE LET h == ToString(Head(hs))
         IN  <<"dSPX_" \o h \o "s", "dVIX_" \o h \o "s">>
             \o (IF pct THEN <<"pctSPX_" \o h \o "s", "pctVIX_" \o h \o "s">> ELSE << >>)
             \o HeaderCols(Tail(hs), pct)

build_header(hs, pct) ==
    <<"datetime_ny", "SPX", "VIX", "dSPX", "dVIX">> \o HeaderCols(hs, pct)

\* ----------------------------------------------------------- marker row
RECURSIVE EmptyCols(_, _)
EmptyCols(hs, pct) ==
    IF Len(hs) = 0 THEN << >>
    ELSE <<"", "">> \o (IF pct THEN <<"", "">> ELSE << >>) \o EmptyCols(Tail(hs), pct)

MarkerRow(ts_str, spx, vix, hs, pct) ==
    <<ts_str, FmtOpt(spx), FmtOpt(vix), "", "">> \o EmptyCols(hs, pct)

ny_timestamp_str_now(now) == fmt_ts_ms(now)

\* _ny_midnight_timestamp_str: midnight of now.date()
ny_midnight_timestamp_str(now) == fmt_ts_ms(DayOf(now) * SecondsPerDay)

\* _next_ny_midnight: midnight of (now + 1 day).date()
next_ny_midnight(now) == DayOf(now + SecondsPerDay) * SecondsPerDay

\* -------------------------------------------------------- rolling buffer
trim_cutoff_nomargin(now_ts, maxh) == now_ts - maxh

\* cutoff = now_ts - timedelta(seconds=self._max_horizon + 5)
trim_cutoff(now_ts, maxh) == now_ts - (maxh + SafetyMargin)

trim_buffer_always(b, now_ts, maxh) ==
    LET keep == {i \in 1..Len(b) : b[i][1] >= now_ts - (maxh + SafetyMargin)}
    IN  IF keep = {} THEN << >>
        ELSE SubSeq(b, CHOOSE i \in keep : \A j \in keep : i <= j, Len(b))

\* _trim_buffer
RECURSIVE trim_buffer(_, _, _)
trim_buffer(b, now_ts, maxh) ==
    IF maxh <= 0 THEN b
    ELSE IF Len(b) > 0 /\ b[1][1] < trim_cutoff(now_ts, maxh)
         THEN trim_buffer(Tail(b), now_ts, maxh)
         ELSE b

ScanBack_strict(b, i, target_ts) ==
    LET idx == {j \in 1..i : b[j][1] < target_ts}
    IN  IF idx = {} THEN None
        ELSE LET m == CHOOSE j \in idx : \A n \in idx : n <= j
             IN  Some(<<b[m][2], b[m][3]>>)

\* the loop of _value_at_or_before over reversed(self._buf), from index i down
RECURSIVE ScanBack(_, _, _)
ScanBack(b, i, target_ts) ==
    IF i = 0 THEN None
    ELSE IF b[i][1] <= target_ts THEN Some(<<b[i][2], b[i][3]>>)
         ELSE ScanBack(b, i - 1, target_ts)

value_at_or_before_oldest(b, target_ts) ==
    LET idx == {i \in 1..Len(b) : b[i][1] <= target_ts}
    IN  IF idx = {} THEN None
        ELSE LET m == CHOOSE i \in idx : \A j \in idx : i <= j
             IN  Some(<<b[m][2], b[m][3]>>)

\* _value_at_or_before (bot/daily_logger.py; main.py has the same function)
value_at_or_before(b, target_ts) == ScanBack(b, Len(b), target_ts)

pct_change_zero(now_val, past_val) ==
    IF past_val = 0 THEN Some(0)
    ELSE Some((100 * (now_val - past_val)) \div past_val)

\* _pct_change: (now_val / past_val - 1.0) * 100.0, exact on the value domain
pct_change(now_val, past_val) ==
    IF past_val = 0 THEN None
    ELSE Some((100 * (now_val - past_val)) \div past_val)

RECURSIVE rolling_parts(_, _, _, _, _, _)
rolling_parts(hs, pct, b, now_dt, spx, vix) ==
    IF Len(hs) = 0 THEN << >>
    ELSE LET past == value_at_or_before(b, now_dt - Head(hs))
             rest == rolling_parts(Tail(hs), pct, b, now_dt, spx, vix)
         IN  IF IsNone(past)
             THEN <<"", "">> \o (IF pct THEN <<"", "">> ELSE << >>) \o rest
             ELSE LET past_spx == Get(past)[1]
                      past_vix == Get(past)[2]
                  IN  <<FmtFloat(spx - past_spx), FmtFloat(vix - past_vix)>>
                      \o (IF pct
                          THEN <<FmtOpt(pct_change(spx, past_spx)),
                                 FmtOpt(pct_change(vix, past_vix))>>
                          ELSE << >>)
                      \o rest

\* the row log() renders; b is the buffer after the append
LogRow(now_dt, spx, vix, pspx, pvix, b, hs, pct) ==
    LET d_spx == IF IsNone(pspx) THEN None ELSE Some(spx - Get(pspx))
        d_vix == IF IsNone(pvix) THEN None ELSE Some(vix - Get(pvix))
    IN  <<fmt_ts_ms(now_dt), FmtFloat(spx), FmtFloat(vix), FmtOpt(d_spx), FmtOpt(d_vix)>>
        \o rolling_parts(hs, pct, b, now_dt, spx, vix)

\* ------------------------------------------------------- bot/signals.py
\* Values and thresholds handed to the classifier are counted in hundredths
\* (0.25 is 25), which keeps every comparison of _classify exact.
classify_strict(value, up_thresh, down_thresh) ==
    IF IsNone(value) THEN "NA"
    ELSE IF Get(value) > up_thresh THEN "UP"
    ELSE IF Get(value) <= -down_thresh THEN "DOWN"
    ELSE "FLAT"

\* _classify
classify(value, up_thresh, down_thresh) ==
    IF IsNone(value) THEN "NA"
    ELSE IF Get(value) >= up_thresh THEN "UP"
    ELSE IF Get(value) <= -down_thresh THEN "DOWN"
    ELSE "FLAT"

TrendSignal(spx, vix) == [spx |-> spx, vix |-> vix]

trend_from_abs_deltas(d_spx_h, d_vix_h, spx_up, spx_down, vix_up, vix_down) ==
    TrendSignal(classify(d_spx_h, spx_up, spx_down), classify(d_vix_h, vix_up, vix_down))

trend_from_pct_changes(pct_spx_h, pct_vix_h, spx_up_pct, spx_down_pct, vix_up_pct, vix_down_pct) ==
    TrendSignal(classify(pct_spx_h, spx_up_pct, spx_down_pct),
                classify(pct_vix_h, vix_up_pct, vix_down_pct))

\* default thresholds of trend_from_abs_deltas (0.25, 0.25, 0.03, 0.03) and
\* of trend_from_pct_changes (0.02, 0.02, 0.10, 0.10)
AbsDefaults == <<25, 25, 3, 3>>
PctDefaults == <<2, 2, 10, 10>>

\* main.py, lines 86-87: the percent change of the orchestrator's signal
\* (values as in log(), result in percent)
main_pct(last_val, past_val) ==
    IF past_val # 0 THEN Some((100 * (last_val - past_val)) \div past_val) ELSE None

\* a float with integral value n as a classifier input
Hundredths(o) == IF IsNone(o) THEN None ELSE Some(100 * Get(o))

\* Inputs tried on the classifier: values around the default thresholds,
\* and (up, down) threshold pairs, symmetric and not, zero and negative
\* included; with the pair (2, -3) the UP range and the DOWN range overlap
\* (up <= -down).
SigValues == {None} \cup {Some(v) : v \in {-25, -3, 2, 3, 25}}
ThresholdPairs == {<<25, 25>>, <<3, 3>>, <<2, -3>>, <<0, 25>>}

\* values the orchestrator looks at (main.py, last_spx, past_spx, ...)
MainValues == 0..2

\* ------------------------------------------------------------ file names
CanonicalPath(date_str) == "Daily_Log_" \o date_str \o ".csv"
FallbackPath(date_str, time_str) == "Daily_Log_" \o date_str \o "_" \o time_str \o ".csv"

resolve_always_canonical(dir, date_str, now) == CanonicalPath(date_str)

\* _resolve_filename_for_date; dir is the directory (path -> rows), now the
\* clock reading _ny_time_str takes when the canonical path exists
resolve_filename_for_date(dir, date_str, now) ==
    IF CanonicalPath(date_str) \notin DOMAIN dir
    THEN CanonicalPath(date_str)
    ELSE FallbackPath(date_str, ny_time_str(now))

\* open(path, "a"): creates an absent file empty, keeps an existing one
OpenAppend(dir, path) == IF path \in DOMAIN dir THEN dir ELSE (path :> << >>) @@ dir

\* the handle open(path, "a") returns: nothing waits in it.  pending holds
\* what was written into the handle and has not reached the file; cut says
\* that the first piece of pending is the rest of the file's last row, whose
\* first bytes a partly accepted flush has put into the file already.
NewHandle(path) == [path |-> path, closed |-> FALSE, pending |-> << >>, cut |-> FALSE]

\* file.write(row) on an open handle: the row waits in the handle's buffer
HandleWrite(f, row) == [f EXCEPT !.pending = Append(@, row)]

\* the bytes a piece of pending takes in the file: its fields, a comma after
\* each but the last, and the newline ("2026-01-06 23:59:59.000,1.0,0.0,,"
\* and the newline are 34 bytes)
RECURSIVE RowBytes(_)
RowBytes(row) == IF Len(row) = 0 THEN 0 ELSE Len(row[1]) + 1 + RowBytes(Tail(row))

\* piece row cut after its first n bytes (0 < n < RowBytes(row)): disk is
\* what the n bytes are, as fields of which the last may be the beginning of
\* a field; rest is what follows, as fields of which the first is the rest of
\* that field ("" when the cut is at the end of the field).  n = 10 cuts
\* "2026-01-06 23:59:59.000" into "2026-01-06" and " 23:59:59.000".
RECURSIVE SplitRow(_, _)
SplitRow(row, n) ==
    IF n <= Len(row[1])
    THEN [disk |-> <<SubSeq(row[1], 1, n)>>,
          rest |-> <<SubSeq(row[1], n + 1, Len(row[1]))>> \o Tail(row)]
    ELSE LET s == SplitRow(Tail(row), n - Len(row[1]) - 1)
         IN  [disk |-> <<row[1]>> \o s.disk, rest |-> s.rest]

\* the rows of a file after the bytes of piece follow its content: a new last
\* row, or, when the last row is unfinished (cut), more of that row: the
\* first field of piece continues its last field
JoinRow(rows, cut, piece) ==
    IF cut
    THEN SubSeq(rows, 1, Len(rows) - 1)
         \o <<SubSeq(rows[Len(rows)], 1, Len(rows[Len(rows)]) - 1)
              \o <<rows[Len(rows)][Len(rows[Len(rows)])] \o piece[1]>> \o Tail(piece)>>
    ELSE Append(rows, piece)

\* the room of a file on which the operating system sets no limit: more
\* than the handle ever holds
NoLimit == 100000

\* file.flush(), accepted: what waits in the handle reaches the file (the
\* rest of a row begun by a partly accepted flush completes that row) ...
FlushedDir(dir, f) ==
    IF f.pending = << >> THEN dir
    ELSE [dir EXCEPT ![f.path] = JoinRow(@, f.cut, f.pending[1]) \o Tail(f.pending)]

\* ... and the handle's buffer is empty
Flushed(f) == [f EXCEPT !.pending = << >>, !.cut = FALSE]

\* the raw writes of a flush on a file with content rows (the last row
\* unfinished when cut) and pieces waiting in the handle, when the operating
\* system accepts room more bytes on the file: every piece that fits reaches
\* the file; of the first that does not, the bytes that fit do, and the write
\* of the next byte fails (raised); the rest waits on
RECURSIVE Accept(_, _, _, _)
Accept(rows, cut, pending, room) ==
    IF pending = << >>
    THEN [rows |-> rows, cut |-> cut, pending |-> pending, raised |-> FALSE, room |-> room]
    ELSE IF room >= RowBytes(pending[1])
    THEN Accept(JoinRow(rows, cut, pending[1]), FALSE, Tail(pending),
                room - RowBytes(pending[1]))
    ELSE IF room = 0
    THEN [rows |-> rows, cut |-> cut, pending |-> pending, raised |-> TRUE, room |-> 0]
    ELSE [rows |-> JoinRow(rows, cut, SplitRow(pending[1], room).disk), cut |-> TRUE,
          pending |-> <<SplitRow(pending[1], room).rest>> \o Tail(pending),
          raised |-> TRUE, room |-> 0]

\* file.flush() on the open handle f when the operating system accepts room
\* more bytes on the file (the file size limit less the size of the file, the
\* free space of the disk): all that waits in the handle reaches the file, or
\* its first room bytes do and OSError is raised, the rest staying in the
\* handle, which stays open.  The cut falls where the room ends: between two
\* rows, between two fields, inside a field.  A flush of nothing cannot fail.
\* room in the result is what the file accepts after this flush.
FlushResult(dir, f, a) ==
    [dir |-> [dir EXCEPT ![f.path] = a.rows],
     file |-> [f EXCEPT !.pending = a.pending, !.cut = a.cut],
     raised |-> a.raised, room |-> a.room]

Flush(dir, f, room) ==
    IF f.pending = << >> \/ room = NoLimit
    THEN [dir |-> FlushedDir(dir, f), file |-> Flushed(f), raised |-> FALSE, room |-> room]
    ELSE FlushResult(dir, f, Accept(dir[f.path], f.cut, f.pending, room))

\* what the operating system does to a call of the logger: fails is the call
\* it refuses outright ("write": file.write, "open": open, "": none), room
\* the bytes it accepts on the file the call flushes
IO(fails, room) == [fails |-> fails, room |-> room]

\* file.write(row) followed by file.flush() (flush_each_write is on), as in
\* log(), lines 200-202: ValueError on a closed handle; io.fails = "write":
\* the write is refused and nothing is buffered; otherwise the row is
\* buffered and the flush moves io.room bytes to the file: when that is not
\* all, OSError, and what was not accepted stays pending in the handle until
\* a later flush is accepted.
WriteAndFlush(dir, f, row, io) ==
    IF f.closed
    THEN [dir |-> dir, file |-> f, outcome |-> "ValueError", at |-> "write"]
    ELSE IF io.fails = "write"
    THEN [dir |-> dir, file |-> f, outcome |-> "OSError", at |-> "write"]
    ELSE LET res == Flush(dir, HandleWrite(f, row), io.room)
         IN  IF res.raised
             THEN [dir |-> res.dir, file |-> res.file, outcome |-> "OSError", at |-> "flush"]
             ELSE [dir |-> res.dir, file |-> res.file, outcome |-> "ok", at |-> ""]

\* _ensure_header: file.tell() == 0 on a fresh append handle is "file is
\* empty"; the header is then written into the handle
ensure_header(dir, f, header) ==
    IF Len(dir[f.path]) = 0 THEN HandleWrite(f, header) ELSE f

IsPrefix(s, t) == Len(s) <= Len(t) /\ \A i \in 1..Len(s) : s[i] = t[i]

\* ================================================================ state
VARIABLES
    options,        \* LoggerOptions: rotate_at_midnight, rolling_horizons_seconds,
                    \*                include_percent_columns
    horizons,       \* self._horizons
    closed,         \* self._closed
    prev_spx,       \* self._prev_spx (None or Some(value))
    prev_vix,       \* self._prev_vix
    buf,            \* self._buf: sequence of <<timestamp, spx, vix>>
    current_date,   \* self.current_date
    file_path,      \* self.file_path
    file,           \* self.file: the handle's path, its closed flag, what was
                    \*            written into it and no flush has moved to the file,
                    \*            and whether that begins inside the file's last row
    timer,          \* self._timer: threading.Timer
    lock,           \* owner of self._lock, or "none"
    clock,          \* the time provider's current reading
    fs,             \* the base directory: path -> rows the file holds (the
                    \* last one unfinished after a partly accepted flush)
    pc,             \* position of each thread
    loc,            \* locals of the call each thread is in
    snap,           \* state observed when the call in progress took the lock
    last,           \* the last call each thread finished and how it ended
    ops,            \* number of calls the orchestrator has made
    fs0,            \* the base directory before construction
    opened,         \* paths the writer has opened
    calls,          \* history: the log() calls since construction or the last
                    \* rotation, each with its clock reading, its sample and
                    \* whether its row was written
    sig             \* the last call into bot/signals.py and what it returned

vars == <<options, horizons, closed, prev_spx, prev_vix, buf, current_date, file_path,
          file, timer, lock, clock, fs, pc, loc, snap, last, ops, fs0, opened, calls,
          sig>>

\* everything but sig: the state of the writer and of its threads
LoggerVars == <<options, horizons, closed, prev_spx, prev_vix, buf, current_date,
                file_path, file, timer, lock, clock, fs, pc, loc, snap, last, ops, fs0,
                opened, calls>>

\* self._header
Header == build_header(horizons, options.include_percent_columns)

NoTimer == [state |-> "none", midnight |-> 0, base |-> 0, delay |-> 0, due |-> 0]
NoLoc == [marker_ts |-> None, row |-> << >>, spx |-> 0, vix |-> 0,
          next_midnight |-> 0, base |-> 0]
NoLast == [op |-> "none", outcome |-> "none", at |-> "", closedAtCall |-> FALSE,
           marker |-> FALSE]

Snapshot == [closed |-> closed, file |-> file, fs |-> fs, prev_spx |-> prev_spx,
             prev_vix |-> prev_vix, buf |-> buf, current_date |-> current_date,
             clock |-> clock]

EmptyDir == [p \in {} |-> << >>]

\* no call into bot/signals.py yet
NoSig == [fn |-> "none", args |-> << >>, out |-> "none"]

\* one entry of the call history
LogCallRecord(ts, spx, vix, ok) == [ts |-> ts, spx |-> spx, vix |-> vix, ok |-> ok]

ArmedTimer_noclamp(next_midnight, base, now) ==
    [state |-> "armed", midnight |-> next_midnight, base |-> base,
     delay |-> next_midnight - now, due |-> next_midnight]

\* threading.Timer(seconds, callback).start() armed at clock reading now
ArmedTimer(next_midnight, base, now) ==
    LET diff == next_midnight - now
        seconds == IF diff < 0 THEN 0 ELSE diff
    IN  [state |-> "armed", midnight |-> next_midnight, base |-> base,
         delay |-> seconds, due |-> now + seconds]

\* Timer.cancel(): stops a timer that has not fired, no effect otherwise
CancelTimer(t) == IF t.state = "armed" THEN [t EXCEPT !.state = "cancelled"] ELSE t

\* Directories an earlier run of the program (same configuration, same day)
\* can have left behind: nothing, the day's canonical file, or that and a
\* fallback file of the current second.
PriorDirs(hs, pct) ==
    LET date == ny_date_str(StartClock)
        canon == CanonicalPath(date)
        fallb == FallbackPath(date, ny_time_str(StartClock))
        hdr == build_header(hs, pct)
        row == LogRow(StartClock, 1, 2, None, None, <<<<StartClock, 1, 2>>>>, hs, pct)
    IN  {EmptyDir,
         (canon :> <<hdr, row>>),
         (canon :> <<hdr, row>>) @@ (fallb :> <<hdr, row>>)}

\* The clock readings of the constructor, in the order it makes them: for
\* the date (line 38), for the time of day of a fallback name (line 76, only
\* when the canonical file exists), for the next midnight (line 79) and for
\* the timer's delay (line 90), the last two only with rotate_at_midnight.
\* A reading the constructor does not make repeats the one before it.
StartReads(dir, ram) ==
    {r \in [{"date", "time", "midnight", "delay"} -> StartClock..LastStartClock] :
        /\ r.date <= r.time /\ r.time <= r.midnight /\ r.midnight <= r.delay
        /\ CanonicalPath(ny_date_str(r.date)) \notin DOMAIN dir => r.time = r.date
        /\ ~ram => r.midnight = r.time /\ r.delay = r.time}

\* DailyMarketLogger.__init__, the state when the constructor returns
Init ==
    \E ram \in BOOLEAN, cfg \in HorizonConfigs :
      \E pct \in PercentOptions(cfg) :
      \E dir \in PriorDirs(Horizons(cfg), pct) :
      \E r \in StartReads(dir, ram) :
        LET date == ny_date_str(r.date)
            path == resolve_filename_for_date(dir, date, r.time)
        IN  /\ options = [rotate_at_midnight |-> ram, rolling_horizons_seconds |-> cfg,
                          include_percent_columns |-> pct]
            /\ horizons = Horizons(cfg)
            /\ closed = FALSE
            /\ prev_spx = None
            /\ prev_vix = None
            /\ buf = << >>
            /\ current_date = date
            /\ file_path = path
            /\ file = Flushed(ensure_header(OpenAppend(dir, path), NewHandle(path),
                                            build_header(Horizons(cfg), pct)))
            /\ fs = FlushedDir(OpenAppend(dir, path),
                               ensure_header(OpenAppend(dir, path), NewHandle(path),
                                             build_header(Horizons(cfg), pct)))
            /\ timer = IF ram
                       THEN ArmedTimer(next_ny_midnight(r.midnight), r.midnight, r.delay)
                       ELSE NoTimer
            /\ lock = "none"
            /\ clock = r.delay
            /\ pc = [t \in Threads |-> "idle"]
            /\ loc = [t \in Threads |-> NoLoc]
            /\ snap = [t \in Threads |-> None]
            /\ last = [t \in Threads |-> NoLast]
            /\ ops = 0
            /\ fs0 = dir
            /\ opened = {path}
            /\ calls = << >>
            /\ sig = NoSig

\* ============================================================== actions
\* The wall clock advances by a second.
Tick ==
    /\ clock < MaxClock
    /\ clock' = clock + 1
    /\ UNCHANGED <<options, horizons, closed, prev_spx, prev_vix, buf, current_date,
                   file_path, file, timer, lock, fs, pc, loc, snap, last, ops, fs0, opened,
                   calls, sig>>

\* A day and a second pass between two steps (the process was suspended).
Suspend ==
    /\ clock <= MaxClock
    /\ clock' = clock + SecondsPerDay + 1
    /\ UNCHANGED <<options, horizons, closed, prev_spx, prev_vix, buf, current_date,
                   file_path, file, timer, lock, fs, pc, loc, snap, last, ops, fs0, opened,
                   calls, sig>>

LockFree_absent(t) == TRUE

\* with self._lock: thread t may enter when no thread holds the lock
LockFree(t) == lock = "none"

\* log(), lines 164-199: take the lock, read the clock, compute the deltas,
\* trim and append to the buffer, render the row.
LogBegin(spx, vix) ==
    /\ pc["main"] = "idle"
    /\ ops < MaxOps
    /\ LockFree("main")
    /\ lock' = "main"
    /\ \E b \in {Append(trim_buffer(buf, clock, MaxHorizon(horizons)), <<clock, spx, vix>>)} :
           /\ buf' = b
           /\ loc' = [loc EXCEPT !["main"] =
                        [NoLoc EXCEPT !.spx = spx, !.vix = vix,
                                      !.row = LogRow(clock, spx, vix, prev_spx, prev_vix, b,
                                                     horizons,
                                                     options.include_percent_columns)]]
    /\ snap' = [snap EXCEPT !["main"] = Some(Snapshot)]
    /\ pc' = [pc EXCEPT !["main"] = "log_write"]
    /\ ops' = ops + 1
    /\ calls' = Append(calls, LogCallRecord(clock, spx, vix, FALSE))
    /\ UNCHANGED <<options, horizons, closed, prev_spx, prev_vix, current_date, file_path,
                   file, timer, clock, fs, last, fs0, opened, sig>>

\* log(), lines 200-205: write and flush the row, then update the previous
\* sample; the exception of a failing write or flush leaves the previous
\* sample as it was.  The lock is released on every exit.
LogWrite(io) ==
    /\ pc["main"] = "log_write"
    /\ io.room # NoLimit => ~file.closed
    /\ \E res \in {WriteAndFlush(fs, file, loc["main"].row, io)} :
           /\ fs' = res.dir
           /\ file' = res.file
           /\ IF res.outcome = "ok"
              THEN /\ prev_spx' = Some(loc["main"].spx)
                   /\ prev_vix' = Some(loc["main"].vix)
              ELSE UNCHANGED <<prev_spx, prev_vix>>
           /\ last' = [last EXCEPT !["main"] =
                         [op |-> "log", outcome |-> res.outcome, at |-> res.at,
                          closedAtCall |-> Get(snap["main"]).closed, marker |-> FALSE]]
           /\ calls' = [calls EXCEPT ![Len(calls)].ok = (res.outcome = "ok")]
    /\ lock' = "none"
    /\ pc' = [pc EXCEPT !["main"] = "idle"]
    /\ loc' = [loc EXCEPT !["main"] = NoLoc]
    /\ snap' = [snap EXCEPT !["main"] = None]
    /\ UNCHANGED <<options, horizons, closed, buf, current_date, file_path, timer,
                   clock, ops, fs0, opened, sig>>

\* The wall clock advances during a logging run, as long as the
\* orchestrator has a call to make or to finish.
TickLog ==
    /\ clock < MaxLogClock
    /\ ops < MaxLogs \/ pc["main"] # "idle"
    /\ clock' = clock + 1
    /\ UNCHANGED <<options, horizons, closed, prev_spx, prev_vix, buf, current_date,
                   file_path, file, timer, lock, fs, pc, loc, snap, last, ops, fs0, opened,
                   calls, sig>>

\* log(), lines 163-205, as one step of a run in which only the orchestrator
\* uses the writer: the lock is free when it is called and free again when
\* it returns or raises.
LogCall(spx, vix, io) ==
    /\ pc["main"] = "idle"
    /\ ops < MaxLogs
    /\ LockFree("main")
    /\ \E b \in {Append(trim_buffer(buf, clock, MaxHorizon(horizons)), <<clock, spx, vix>>)} :
       \E row \in {LogRow(clock, spx, vix, prev_spx, prev_vix, b, horizons,
                          options.include_percent_columns)} :
       \E res \in {WriteAndFlush(fs, file, row, io)} :
           /\ io.room # NoLimit => ~file.closed
           /\ buf' = b
           /\ fs' = res.dir
           /\ file' = res.file
           /\ IF res.outcome = "ok"
              THEN /\ prev_spx' = Some(spx)
                   /\ prev_vix' = Some(vix)
              ELSE UNCHANGED <<prev_spx, prev_vix>>
           /\ last' = [last EXCEPT !["main"] =
                         [op |-> "log", outcome |-> res.outcome, at |-> res.at,
                          closedAtCall |-> closed, marker |-> FALSE]]
           /\ calls' = Append(calls, LogCallRecord(clock, spx, vix, res.outcome = "ok"))
    /\ ops' = ops + 1
    /\ UNCHANGED <<options, horizons, closed, current_date, file_path, timer, lock,
                   clock, pc, loc, snap, fs0, opened, sig>>

\* where a thread continues when rotate_now returns: the callback goes on
\* to reschedule, the orchestrator's call is over
AfterRotate(t) == IF t = "timer" THEN "cb_sched" ELSE "idle"

\* where a thread continues when rotate_now raises: the callback's finally
\* clause still reschedules
AfterRaise(t) == IF t = "timer" THEN "cb_sched" ELSE "idle"

CloseOld_skip(dir, f, room) == [file |-> f, dir |-> dir, raised |-> FALSE]

\* rotate_now, lines 127-130: unless the old handle is closed already, flush
\* it and close it.  The flush moves what is pending in the handle to the
\* file, as far as the room bytes the file accepts go; a flush that is not
\* accepted whole raises before file.close() is reached and leaves the
\* handle open with the rest pending.
CloseOld(dir, f, room) ==
    IF f.closed THEN [file |-> f, dir |-> dir, raised |-> FALSE]
    ELSE LET res == Flush(dir, f, room)
         IN  IF res.raised THEN [file |-> res.file, dir |-> res.dir, raised |-> TRUE]
             ELSE [file |-> [res.file EXCEPT !.closed = TRUE], dir |-> res.dir,
                   raised |-> FALSE]

\* rotate_now(), lines 122-130: take the lock, read the clock for the marker
\* timestamp and write the marker row to the old file when one is requested
\* (ValueError on a closed handle, OSError when its flush is not accepted
\* whole), then flush and close the old file unless it is closed already
\* (OSError when the flush is not accepted whole).  room is what the
\* operating system accepts on the old file during the call.  When the call
\* raises here the lock is released and nothing has been rotated.
RotateBegin(t, marker, room) ==
    /\ LockFree(t)
    /\ IF t = "main" THEN pc[t] = "idle" /\ ops < MaxOps ELSE pc[t] = "cb_rotate" /\ marker
    /\ room = NoLimit \/ (~file.closed /\ (marker \/ file.pending # << >>))
    /\ ops' = IF t = "main" THEN ops + 1 ELSE ops
    /\ \E marker_ts \in {ny_midnight_timestamp_str(clock)} :
       \E f1 \in {IF marker
                  THEN HandleWrite(file, MarkerRow(marker_ts, prev_spx, prev_vix, horizons,
                                                   options.include_percent_columns))
                  ELSE file} :
       \E mark \in {Flush(fs, f1, room)} :
       \E old \in {IF marker THEN CloseOld(mark.dir, mark.file, mark.room)
                   ELSE CloseOld(fs, file, room)} :
       LET raise(outcome, at) ==
               /\ last' = [last EXCEPT ![t] =
                             [op |-> "rotate", outcome |-> outcome, at |-> at,
                              closedAtCall |-> closed, marker |-> marker]]
               /\ pc' = [pc EXCEPT ![t] = AfterRaise(t)]
               /\ UNCHANGED <<lock, loc, snap>>
       IN  IF marker /\ file.closed
           THEN raise("ValueError", "write") /\ UNCHANGED <<fs, file>>
           ELSE IF marker /\ mark.raised
           THEN raise("OSError", "flush") /\ file' = mark.file /\ fs' = mark.dir
           ELSE IF old.raised
           THEN raise("OSError", "flush") /\ file' = old.file /\ fs' = old.dir
           ELSE /\ fs' = old.dir
                /\ file' = old.file
                /\ lock' = t
                /\ loc' = [loc EXCEPT ![t] =
                             [NoLoc EXCEPT !.marker_ts =
                                IF marker THEN Some(marker_ts) ELSE None]]
                /\ snap' = [snap EXCEPT ![t] = Some(Snapshot)]
                /\ pc' = [pc EXCEPT ![t] = "rot_date"]
                /\ UNCHANGED last
    /\ UNCHANGED <<options, horizons, closed, prev_spx, prev_vix, buf, current_date,
                   file_path, timer, clock, fs0, opened, calls, sig>>

\* rotate_now(), line 132: read the clock for the new date.
RotateDate(t) ==
    /\ pc[t] = "rot_date"
    /\ current_date' = ny_date_str(clock)
    /\ pc' = [pc EXCEPT ![t] = "rot_open"]
    /\ UNCHANGED <<options, horizons, closed, prev_spx, prev_vix, buf, file_path, file,
                   timer, lock, clock, fs, loc, snap, last, ops, fs0, opened, calls, sig>>

\* rotate_now(), lines 133-142: resolve the path (reading the clock for the
\* time of day when the canonical file exists), open it for append (OSError
\* when the open fails), write and flush the header into an empty file,
\* repeat and flush the marker row, forget the previous sample and clear
\* the buffer.  io.room is what the operating system accepts on the new file
\* during the call: a flush that is not accepted whole raises with the new
\* handle open and the rest pending, the previous sample and the buffer as
\* they were.
RotateOpen(t, io) ==
    /\ pc[t] = "rot_open"
    /\ \E path \in {resolve_filename_for_date(fs, current_date, clock)} :
       \E marker_ts \in {loc[t].marker_ts} :
       \E dir1 \in {OpenAppend(fs, path)} :
       \E f1 \in {ensure_header(dir1, NewHandle(path), Header)} :
       \E head \in {Flush(dir1, f1, io.room)} :
       \E f2 \in {IF IsNone(marker_ts) THEN head.file
                  ELSE HandleWrite(head.file,
                                   MarkerRow(Get(marker_ts), prev_spx, prev_vix, horizons,
                                             options.include_percent_columns))} :
       \E mark \in {Flush(head.dir, f2, head.room)} :
       \E at \in {IF io.fails = "open" THEN "open"
                  ELSE IF head.raised \/ mark.raised THEN "flush" ELSE ""} :
           /\ io.room # NoLimit => f1.pending # << >> \/ ~IsNone(marker_ts)
           /\ file_path' = path
           /\ opened' = IF at = "open" THEN opened ELSE opened \cup {path}
           /\ CASE at = "open" ->
                     UNCHANGED <<fs, file, prev_spx, prev_vix, buf, calls>>
                [] at = "flush" /\ head.raised ->
                     /\ fs' = head.dir
                     /\ file' = head.file
                     /\ UNCHANGED <<prev_spx, prev_vix, buf, calls>>
                [] at = "flush" /\ ~head.raised ->
                     /\ fs' = mark.dir
                     /\ file' = mark.file
                     /\ UNCHANGED <<prev_spx, prev_vix, buf, calls>>
                [] at = "" ->
                     /\ fs' = mark.dir
                     /\ file' = mark.file
                     /\ prev_spx' = None
                     /\ prev_vix' = None
                     /\ buf' = << >>
                     /\ calls' = << >>
           /\ last' = [last EXCEPT ![t] =
                         [op |-> "rotate", outcome |-> IF at = "" THEN "ok" ELSE "OSError",
                          at |-> at,
                          closedAtCall |-> Get(snap[t]).closed,
                          marker |-> ~IsNone(marker_ts)]]
           /\ pc' = [pc EXCEPT ![t] = IF at = "" THEN AfterRotate(t) ELSE AfterRaise(t)]
    /\ lock' = "none"
    /\ loc' = [loc EXCEPT ![t] = NoLoc]
    /\ snap' = [snap EXCEPT ![t] = None]
    /\ UNCHANGED <<options, horizons, closed, current_date, timer, clock, ops, fs0, sig>>

Close_unguarded(room) ==
    /\ pc["main"] = "idle"
    /\ ops < MaxOps
    /\ LockFree("main")
    /\ room = NoLimit \/ (~file.closed /\ file.pending # << >>)
    /\ ops' = ops + 1
    /\ \E res \in {Flush(fs, file, room)} :
       LET refused == ~file.closed /\ res.raised
       IN  /\ closed' = TRUE
           /\ timer' = CancelTimer(timer)
           /\ IF file.closed
              THEN UNCHANGED <<file, fs>>
              ELSE /\ fs' = res.dir
                   /\ file' = [res.file EXCEPT !.closed = ~res.raised]
           /\ last' = [last EXCEPT !["main"] =
                         [op |-> "close", outcome |-> IF refused THEN "OSError" ELSE "ok",
                          at |-> IF refused THEN "flush" ELSE "",
                          closedAtCall |-> closed, marker |-> FALSE]]
    /\ UNCHANGED <<options, horizons, prev_spx, prev_vix, buf, current_date, file_path,
                   lock, clock, pc, loc, snap, fs0, opened, calls, sig>>

\* close(), lines 207-217: nothing when already closed; otherwise mark the
\* writer closed, cancel the timer, and unless the handle is closed already
\* flush it and close it.  A flush of which the file accepts only room
\* bytes, and not all, raises OSError before file.close() is reached: the
\* writer is marked closed and the handle stays open with the rest pending.
Close(room) ==
    /\ pc["main"] = "idle"
    /\ ops < MaxOps
    /\ LockFree("main")
    /\ room = NoLimit \/ (~closed /\ ~file.closed /\ file.pending # << >>)
    /\ ops' = ops + 1
    /\ \E res \in {Flush(fs, file, room)} :
       LET refused == ~closed /\ ~file.closed /\ res.raised
       IN  /\ IF closed
              THEN UNCHANGED <<closed, timer, file, fs>>
              ELSE /\ closed' = TRUE
                   /\ timer' = CancelTimer(timer)
                   /\ IF file.closed
                      THEN UNCHANGED <<file, fs>>
                      ELSE /\ fs' = res.dir
                           /\ file' = [res.file EXCEPT !.closed = ~res.raised]
           /\ last' = [last EXCEPT !["main"] =
                         [op |-> "close", outcome |-> IF refused THEN "OSError" ELSE "ok",
                          at |-> IF refused THEN "flush" ELSE "",
                          closedAtCall |-> closed, marker |-> FALSE]]
    /\ UNCHANGED <<options, horizons, prev_spx, prev_vix, buf, current_date, file_path,
                   lock, clock, pc, loc, snap, fs0, opened, calls, sig>>

\* threading.Timer.run: the delay has passed and the timer was not cancelled;
\* the callback starts in the timer thread.
TimerFire ==
    /\ timer.state = "armed"
    /\ clock >= timer.due
    /\ pc["timer"] = "idle"
    /\ timer' = [timer EXCEPT !.state = "fired"]
    /\ pc' = [pc EXCEPT !["timer"] = "cb_rotate"]
    /\ UNCHANGED <<options, horizons, closed, prev_spx, prev_vix, buf, current_date,
                   file_path, file, lock, clock, fs, loc, snap, last, ops, fs0, opened,
                   calls, sig>>

\* _midnight_rotate_callback's finally and _schedule_next_midnight_rotation,
\* lines 118-119 and 84-89: nothing when the option is off or the writer is
\* closed; otherwise cancel the old timer and read the clock for the next
\* midnight.
SchedBegin ==
    /\ pc["timer"] = "cb_sched"
    /\ IF ~options.rotate_at_midnight
       THEN /\ pc' = [pc EXCEPT !["timer"] = "idle"]
            /\ last' = [last EXCEPT !["timer"].op = "callback"]
            /\ UNCHANGED <<timer, lock, loc>>
       ELSE /\ LockFree("timer")
            /\ IF closed
               THEN /\ pc' = [pc EXCEPT !["timer"] = "idle"]
                    /\ last' = [last EXCEPT !["timer"].op = "callback"]
                    /\ UNCHANGED <<timer, lock, loc>>
               ELSE /\ timer' = CancelTimer(timer)
                    /\ lock' = "timer"
                    /\ loc' = [loc EXCEPT !["timer"] =
                                 [NoLoc EXCEPT !.next_midnight = next_ny_midnight(clock),
                                               !.base = clock]]
                    /\ pc' = [pc EXCEPT !["timer"] = "sched_arm"]
                    /\ UNCHANGED last
    /\ UNCHANGED <<options, horizons, closed, prev_spx, prev_vix, buf, current_date,
                   file_path, file, clock, fs, snap, ops, fs0, opened, calls, sig>>

\* _schedule_next_midnight_rotation, lines 90-95: read the clock again for
\* the delay, clamp it at zero, start the new timer, release the lock.
SchedArm ==
    /\ pc["timer"] = "sched_arm"
    /\ timer' = ArmedTimer(loc["timer"].next_midnight, loc["timer"].base, clock)
    /\ lock' = "none"
    /\ loc' = [loc EXCEPT !["timer"] = NoLoc]
    /\ pc' = [pc EXCEPT !["timer"] = "idle"]
    /\ last' = [last EXCEPT !["timer"].op = "callback"]
    /\ UNCHANGED <<options, horizons, closed, prev_spx, prev_vix, buf, current_date,
                   file_path, file, clock, fs, snap, ops, fs0, opened, calls, sig>>

\* The bytes the operating system accepts on the file a call flushes: none
\* (the flush is refused), 10 (the cut falls inside the first field waiting,
\* after "2026-01-06" or "datetime_n"), 42 (as long as a row of thirteen
\* fields with its rolling fields empty: the cut falls between two rows
\* when two such rows wait, inside a row when a longer one or the second of
\* two shorter ones is reached, after a field or inside one), or all.
Rooms == {0, 10, 42, NoLimit}

\* What the operating system can do to a file.write() that the handle
\* buffers and the file.flush() after it: accept of the flush what the room
\* allows.
FlushIO == {IO("", room) : room \in Rooms}

\* What the operating system can do to the I/O of one log() call: refuse
\* file.write, or accept the write into the handle and of the flush what
\* the room allows.
LogIO == {IO("write", NoLimit)} \cup FlushIO

\* What the operating system can do to the I/O of lines 133-138 of rotate_now:
\* refuse the open, or accept of the flush of the header and of the flush of
\* the repeated marker row what the room on the new file allows.
OpenIO == {IO("open", NoLimit)} \cup FlushIO

\* Both threads around a midnight: the orchestrator logs, rotates and
\* closes, the timer callback rotates with marker.  The few rows of these
\* runs fit the handle's buffer, so file.write only buffers and a log() call
\* on an open handle fails at its flush if at all.
Next ==
    \/ Tick
    \/ \E s \in MidnightSamples : LogBegin(s[1], s[2])
    \/ \E io \in FlushIO : LogWrite(io)
    \/ \E t \in Threads, marker \in BOOLEAN, room \in Rooms : RotateBegin(t, marker, room)
    \/ \E t \in Threads : RotateDate(t)
    \/ \E t \in Threads, io \in OpenIO : RotateOpen(t, io)
    \/ \E room \in Rooms : Close(room)
    \/ TimerFire
    \/ SchedBegin
    \/ SchedArm

\* Both threads need the midnight timer (rotate_at_midnight on); the runs
\* start from an empty base directory with horizons and percent columns
\* configured, the writer constructed at 23:59:59 (every clock reading of
\* the constructor is that second).
InitMidnight ==
    /\ Init
    /\ options.rotate_at_midnight
    /\ horizons # << >>
    /\ options.include_percent_columns
    /\ fs0 = EmptyDir
    /\ clock = StartClock

Spec == InitMidnight /\ [][Next]_vars

\* The orchestrator alone around a midnight (rotate_at_midnight off), with
\* every call it can make and every outcome of the file I/O.
InitMain == Init /\ ~options.rotate_at_midnight

NextMain ==
    \/ Tick
    \/ \E s \in Samples : LogBegin(s[1], s[2])
    \/ \E io \in LogIO : LogWrite(io)
    \/ \E marker \in BOOLEAN, room \in Rooms : RotateBegin("main", marker, room)
    \/ RotateDate("main")
    \/ \E io \in OpenIO : RotateOpen("main", io)
    \/ \E room \in Rooms : Close(room)

SpecMain == InitMain /\ [][NextMain]_vars

\* The timer thread alone (the orchestrator only closes), with the process
\* suspended across a midnight.
NextSuspend ==
    \/ Tick
    \/ Suspend
    \/ \E room \in Rooms : Close(room)
    \/ TimerFire
    \/ \E room \in Rooms : RotateBegin("timer", TRUE, room)
    \/ RotateDate("timer")
    \/ \E io \in OpenIO : RotateOpen("timer", io)
    \/ SchedBegin
    \/ SchedArm

SpecSuspend == Init /\ [][NextSuspend]_vars

\* The orchestrator alone, logging over several seconds: no midnight timer
\* (rotate_at_midnight off) and an empty base directory, constructed at
\* 23:59:59 (the constructor then reads the clock once, for the date).
InitLog == Init /\ ~options.rotate_at_midnight /\ fs0 = EmptyDir /\ clock = StartClock

\* A call of _classify.
Classify(value, up_thresh, down_thresh) ==
    /\ sig' = [fn |-> "_classify", args |-> <<value, up_thresh, down_thresh>>,
               out |-> classify(value, up_thresh, down_thresh)]
    /\ UNCHANGED LoggerVars

\* A call of trend_from_abs_deltas.
TrendFromAbsDeltas(d_spx, d_vix, spx, vix) ==
    /\ sig' = [fn |-> "trend_from_abs_deltas",
               args |-> <<d_spx, d_vix, spx[1], spx[2], vix[1], vix[2]>>,
               out |-> trend_from_abs_deltas(d_spx, d_vix, spx[1], spx[2], vix[1], vix[2])]
    /\ UNCHANGED LoggerVars

\* A call of trend_from_pct_changes.
TrendFromPctChanges(pct_spx, pct_vix, spx, vix) ==
    /\ sig' = [fn |-> "trend_from_pct_changes",
               args |-> <<pct_spx, pct_vix, spx[1], spx[2], vix[1], vix[2]>>,
               out |-> trend_from_pct_changes(pct_spx, pct_vix, spx[1], spx[2], vix[1],
                                              vix[2])]
    /\ UNCHANGED LoggerVars

\* main.py, lines 80-88: the orchestrator's trend signals from the latest
\* values and the values it looked up at its signal horizon, with the
\* default thresholds.
MainSignals(last_spx, past_spx, last_vix, past_vix) ==
    LET d_spx == last_spx - past_spx
        d_vix == last_vix - past_vix
        pct_spx == main_pct(last_spx, past_spx)
        pct_vix == main_pct(last_vix, past_vix)
        a == AbsDefaults
        q == PctDefaults
    IN  /\ sig' = [fn |-> "main",
                   args |-> <<last_spx, past_spx, last_vix, past_vix>>,
                   out |-> [pct_spx |-> pct_spx, pct_vix |-> pct_vix,
                            sig_abs |-> trend_from_abs_deltas(
                                           Hundredths(Some(d_spx)), Hundredths(Some(d_vix)),
                                           a[1], a[2], a[3], a[4]),
                            sig_pct |-> trend_from_pct_changes(
                                           Hundredths(pct_spx), Hundredths(pct_vix),
                                           q[1], q[2], q[3], q[4])]]
        /\ UNCHANGED LoggerVars

NextSignals ==
    \/ \E v \in SigValues, th \in ThresholdPairs : Classify(v, th[1], th[2])
    \/ \E v, w \in SigValues, spx, vix \in ThresholdPairs : TrendFromAbsDeltas(v, w, spx, vix)
    \/ \E v, w \in SigValues, spx, vix \in ThresholdPairs : TrendFromPctChanges(v, w, spx, vix)
    \/ \E a, b, c, d \in MainValues : MainSignals(a, b, c, d)

\* The trend classifier called on its own, next to a freshly constructed
\* writer.
SpecSignals == InitLog /\ [][NextSignals]_vars

\* The bytes the operating system accepts on the file a call flushes, in the
\* logging runs: none, 42, or all.  After a refused flush two rows wait: 42
\* bytes are the first of two rows of thirteen fields (the cut falls between
\* the rows) and reach into the timestamp of the second of two shorter rows;
\* in a new file they end inside a field of the header.
LogRooms == {0, 42, NoLimit}

\* The I/O outcomes of a log() call in the logging runs: the write is
\* buffered and the flush accepted as far as the room allows.
LogRunIO == {IO("", room) : room \in LogRooms}

\* The I/O outcomes of lines 133-138 of rotate_now in the logging runs
RotateRunIO == {IO("open", NoLimit)} \cup LogRunIO

\* The orchestrator logs, the clock advancing between its calls.
NextLog ==
    \/ TickLog
    \/ \E s \in Samples, io \in LogRunIO : LogCall(s[1], s[2], io)

SpecLog == InitLog /\ [][NextLog]_vars

\* The orchestrator logs and rotates without marker, on a writer with
\* horizons and percent columns configured.
InitRotate == InitLog /\ horizons # << >> /\ options.include_percent_columns

NextRotate ==
    \/ TickLog
    \/ \E s \in Samples, io \in LogRunIO : LogCall(s[1], s[2], io)
    \/ \E room \in LogRooms : RotateBegin("main", FALSE, room)
    \/ RotateDate("main")
    \/ \E io \in RotateRunIO : RotateOpen("main", io)

SpecRotate == InitRotate /\ [][NextRotate]_vars

\* =============================================================== claims
\* positions at which a thread is inside a locked region
Locked == {"log_write", "rot_date", "rot_open", "sched_arm"}

\* the step with which a call of the orchestrator (log, rotate_now) returns
\* or raises
MainCallEnds ==
    /\ pc'["main"] = "idle"
    /\ (pc["main"] # "idle" \/ ops' # ops)
    /\ last'["main"].op \in {"log", "rotate"}

\* the state the orchestrator's call started in
PreCall == IF pc["main"] = "idle" THEN Snapshot ELSE Get(snap["main"])

\* the step with which close() returns
CloseStep ==
    /\ pc["main"] = "idle"
    /\ pc'["main"] = "idle"
    /\ ops' # ops
    /\ last'["main"].op = "close"

\* the step with which thread t's rotate_now returns, or raises after the
\* old file is closed
RotateEnds(t) == pc[t] = "rot_open" /\ pc'[t] # "rot_open"

\* the rows the writer has written to file p: what the file holds together
\* with what waits in the open handle
Content(p) == IF ~file.closed /\ file.path = p THEN FlushedDir(fs, file)[p] ELSE fs[p]

\* a marker row for timestamp ts_str and previous sample (spx, vix)
IsMarker(row, ts_str, spx, vix) ==
    /\ Len(row) >= 5
    /\ row[1] = ts_str
    /\ row[2] = (IF IsNone(spx) THEN "" ELSE ToString(Get(spx)) \o ".0")
    /\ row[3] = (IF IsNone(vix) THEN "" ELSE ToString(Get(vix)) \o ".0")
    /\ \A i \in 4..Len(row) : row[i] = ""

\* C1: after close() every later log() and rotate_now() call, with or
\* without marker, is rejected with an error and changes nothing: no file
\* is opened or created, no row is written, the previous sample and the
\* rolling buffer are unchanged.
C1_RejectedAfterClose ==
    [][(MainCallEnds /\ PreCall.closed) =>
          /\ last'["main"].outcome # "ok"
          /\ fs' = PreCall.fs
          /\ file'.closed
          /\ prev_spx' = PreCall.prev_spx
          /\ prev_vix' = PreCall.prev_vix
          /\ buf' = PreCall.buf]_vars

\* C2: CLOSED is terminal: once close() has completed the writer never
\* holds an open file handle again.
C2_ClosedIsTerminal == closed => file.closed

\* C3: log, rotate_now and close exclude each other: the two threads are
\* never inside a locked region together, a thread inside one holds the
\* lock, and the handle log() writes its row to is the open handle it found
\* when it took the lock (no rotation has closed or swapped it meanwhile).
C3_MutualExclusion ==
    /\ ~(pc["main"] \in Locked /\ pc["timer"] \in Locked)
    /\ \A t \in Threads : pc[t] \in Locked => lock = t
    /\ pc["main"] = "log_write" => file = Get(snap["main"]).file

\* a log() call is between its buffer update and its write while the timer
\* callback has fired and wants to rotate
C3_Witness ==
    /\ pc["main"] = "log_write"
    /\ pc["timer"] = "cb_rotate"
    /\ ~file.closed

\* C4: when the clock has passed the midnight after the open file's date
\* and rotate_now(marker) runs on an open writer and succeeds, the old
\* file ends with a marker row (midnight timestamp, the previous sample's
\* values or empty, empty delta columns), the new handle is open on the
\* new date's file, which starts with the header followed by the same
\* marker row, and the previous sample and the buffer are empty; the old
\* file got the rows that were waiting in its handle, then the marker row.
C4_MidnightRotation ==
    [][\A t \in Threads :
         (/\ RotateEnds(t)
          /\ last'[t].outcome = "ok"
          /\ last'[t].marker
          /\ ~Get(snap[t]).closed
          /\ ~Get(snap[t]).file.closed
          /\ ny_date_str(Get(snap[t]).clock) # Get(snap[t]).current_date)
         =>
         LET S == Get(snap[t])
             old == S.file.path
             new == file'.path
             midnight == S.clock - (S.clock % SecondsPerDay)
         IN  /\ new # old
             /\ IsMarker(fs'[old][Len(fs'[old])], fmt_ts_ms(midnight), S.prev_spx,
                         S.prev_vix)
             /\ fs'[old] = FlushedDir(S.fs, S.file)[old] \o <<fs'[old][Len(fs'[old])]>>
             /\ ~file'.closed
             /\ file_path' = new
             /\ \E c \in S.clock..clock : new = CanonicalPath(ny_date_str(c))
             /\ Len(fs'[new]) = 2
             /\ fs'[new][1] = Header
             /\ fs'[new][2] = fs'[old][Len(fs'[old])]
             /\ prev_spx' = None
             /\ prev_vix' = None
             /\ buf' = << >>]_vars

\* a marker rotation after midnight, following a logged sample, has
\* produced the new day's file
C4_Witness ==
    \E t \in Threads :
      /\ last[t].op \in {"rotate", "callback"}
      /\ last[t].outcome = "ok"
      /\ last[t].marker
      /\ pc[t] \in {"idle", "cb_sched"}
      /\ DayOf(clock) = 1
      /\ ~file.closed
      /\ file.path = CanonicalPath(ny_date_str(clock))
      /\ Len(fs[file.path]) = 2
      /\ fs[file.path][2][1] = "2026-01-07 00:00:00.000"
      /\ fs[file.path][2][2] # ""
      /\ IsNone(prev_spx)
      /\ buf = << >>

\* C5: close() is idempotent: a close() call on a writer that close() has
\* been called on before raises no error and changes nothing (the handle
\* is not closed again, the files, the timer and every field stay as they
\* are), whatever state the first close() and the calls before it left.
C5_CloseIdempotent ==
    [][CloseStep =>
          /\ closed'
          /\ closed =>
                /\ last'["main"].outcome = "ok"
                /\ UNCHANGED <<closed, file, timer, fs, prev_spx, prev_vix, buf,
                               current_date, file_path, opened>>]_vars

\* close() has been called on a closed writer
C5_Witness ==
    /\ last["main"].op = "close"
    /\ last["main"].closedAtCall
    /\ last["main"].outcome = "ok"

\* C6: once close() has returned no timer is armed, and a timer callback
\* that had fired before close() writes no row, opens no file and
\* schedules no timer.
C6_CloseCancelsRotation ==
    /\ [](closed => timer.state # "armed")
    /\ [][(closed /\ pc'["timer"] # pc["timer"]) =>
             /\ fs' = fs
             /\ file' = file
             /\ timer'.state # "armed"]_vars

\* C7: with rotate_at_midnight on and the writer not closed, the timer
\* callback reschedules whether rotate_now returned or raised; the new
\* timer's deadline is the first midnight after the clock reading taken
\* when rescheduling began, and its delay is not negative.
C7_Reschedules ==
    /\ [][(pc["timer"] \in {"cb_rotate", "rot_date", "rot_open"}
           /\ pc'["timer"] \notin {"cb_rotate", "rot_date", "rot_open"})
          => pc'["timer"] = "cb_sched"]_vars
    /\ [][(pc["timer"] = "cb_sched" /\ pc'["timer"] = "sched_arm")
          => loc'["timer"].base = clock]_vars
    /\ [][(pc["timer"] \in {"cb_sched", "sched_arm"} /\ pc'["timer"] = "idle"
           /\ options.rotate_at_midnight /\ ~closed')
          => /\ timer'.state = "armed"
             /\ timer'.delay >= 0
             /\ timer'.due >= clock
             /\ timer'.midnight % SecondsPerDay = 0
             /\ timer'.midnight > loc["timer"].base
             /\ timer'.midnight - loc["timer"].base <= SecondsPerDay]_vars

\* a callback whose rotation raised has ended with a timer armed, its
\* deadline already passed when the delay was computed
C7_Witness ==
    /\ last["timer"].op = "callback"
    /\ last["timer"].outcome = "OSError"
    /\ pc["timer"] = "idle"
    /\ ~closed
    /\ timer.state = "armed"
    /\ timer.delay = 0
    /\ timer.midnight < clock

\* C8: when opening the new file fails in rotate_now, the old handle is
\* closed, the failure reaches the caller, and a log() call on the writer
\* in that state fails without writing a row.
C8_FailedOpen ==
    [][/\ \A t \in Threads :
            (RotateEnds(t) /\ last'[t].at = "open") =>
               /\ file'.closed
               /\ file'.pending = << >>
               /\ last'[t].outcome = "OSError"
               /\ fs' = fs
       /\ (pc["main"] = "log_write" /\ pc'["main"] = "idle" /\ file.closed) =>
               /\ last'["main"].outcome = "ValueError"
               /\ fs' = fs
               /\ prev_spx' = prev_spx
               /\ prev_vix' = prev_vix]_vars

\* a log() call has failed on a writer left without open file by a failed
\* rotation
C8_Witness ==
    /\ last["main"].op = "log"
    /\ last["main"].outcome = "ValueError"
    /\ ~last["main"].closedAtCall
    /\ ~closed
    /\ file.closed
    /\ pc["main"] = "idle"

\* the last row of file p is unfinished: a partly accepted flush has put its
\* first bytes into the file and the rest waits in the open handle
Unfinished(p) == ~file.closed /\ file.path = p /\ file.cut

\* the text of an unfinished row a is the beginning of the text of row b: its
\* fields but the last are the first fields of b, and its last field is the
\* beginning of the field of b at that place
BeginsRow(a, b) ==
    /\ Len(a) <= Len(b)
    /\ \A i \in 1..(Len(a) - 1) : a[i] = b[i]
    /\ Len(a[Len(a)]) <= Len(b[Len(a)])
    /\ SubSeq(b[Len(a)], 1, Len(a[Len(a)])) = a[Len(a)]

\* content s of a file, its last row unfinished or not, is the beginning of
\* content t: the rows of s are the first rows of t, an unfinished last row
\* being the beginning of its row in t
KeepsContent(s, unfinished, t) ==
    IF unfinished
    THEN /\ Len(s) <= Len(t)
         /\ \A i \in 1..(Len(s) - 1) : s[i] = t[i]
         /\ BeginsRow(s[Len(s)], t[Len(s)])
    ELSE IsPrefix(s, t)

\* C9: no operation overwrites data: every file keeps what it held before
\* construction and before each step as a prefix of its content, and when
\* the canonical path of the date exists at construction or rotation the
\* writer opens the fallback path with the time of day instead (the time
\* read after the date: the constructor's last reading when rotate_at_midnight
\* is off); a canonical file found at construction is never opened.
C9_NoOverwrite ==
    /\ [](\A p \in DOMAIN fs0 : p \in DOMAIN fs /\ IsPrefix(fs0[p], fs[p]))
    /\ (CanonicalPath(current_date) \in DOMAIN fs0 =>
            /\ file.path = FallbackPath(current_date, ny_time_str(clock))
            /\ opened = {file.path})
    /\ [](\A c \in {StartClock, MaxClock} :
            CanonicalPath(ny_date_str(c)) \in DOMAIN fs0 =>
                CanonicalPath(ny_date_str(c)) \notin opened)
    /\ [][\A p \in DOMAIN fs : p \in DOMAIN fs' /\ KeepsContent(fs[p], Unfinished(p), fs'[p])]_vars
    /\ [][\A t \in Threads :
            (RotateEnds(t) /\ last'[t].outcome = "ok"
             /\ CanonicalPath(current_date') \in DOMAIN fs)
            => /\ file'.path = FallbackPath(current_date', ny_time_str(clock))
               /\ file'.path # CanonicalPath(current_date')]_vars

\* a rotation found the canonical file of the date and opened the fallback
C9_Witness ==
    \E t \in Threads :
      /\ last[t].op = "rotate"
      /\ last[t].outcome = "ok"
      /\ ~file.closed
      /\ CanonicalPath(current_date) \in DOMAIN fs
      /\ file.path = FallbackPath(current_date, ny_time_str(clock))
      /\ Len(fs[CanonicalPath(current_date)]) >= 2

\* C10: every file the writer has opened holds the header row as its first
\* row and nowhere else; the header has 5 + |horizons| * (4 with percent
\* columns, else 2) columns and every row of the file has as many fields.
C10_HeaderOnce ==
    /\ Len(Header) =
         5 + Cardinality({h \in {options.rolling_horizons_seconds[i] :
                                   i \in 1..Len(options.rolling_horizons_seconds)} : h > 0})
             * (IF options.include_percent_columns THEN 4 ELSE 2)
    /\ \A p \in opened :
         /\ p \in DOMAIN fs
         /\ Len(fs[p]) >= 1
         /\ fs[p][1] = Header
         /\ \A i \in 2..Len(fs[p]) : fs[p][i] # Header /\ Len(fs[p][i]) = Len(Header)

\* clock readings a lookup can be asked for in a logging run
Targets == (StartClock - 3)..(MaxLogClock + 1)

\* C11: the samples are appended with non-decreasing timestamps, and for
\* every target t the lookup returns the values of the retained sample
\* appended last among those with a timestamp <= t; it returns nothing
\* exactly when the buffer holds no such sample (it is empty or all its
\* timestamps are later than t).
C11_ValueAtOrBefore ==
    /\ \A i \in 1..(Len(buf) - 1) : buf[i][1] <= buf[i + 1][1]
    /\ \A t \in Targets :
         LET idx == {i \in 1..Len(buf) : buf[i][1] <= t}
             found == value_at_or_before(buf, t)
         IN  /\ IsNone(found) <=> idx = {}
             /\ idx # {} =>
                  LET m == CHOOSE i \in idx : \A j \in idx : j <= i
                  IN  found = Some(<<buf[m][2], buf[m][3]>>)

\* three retained samples, the last two with the same timestamp and
\* different values: a lookup at that timestamp finds the later one, a
\* lookup before the first sample finds nothing
C11_Witness ==
    /\ Len(buf) = 3
    /\ buf[1][1] < buf[2][1]
    /\ buf[2][1] = buf[3][1]
    /\ buf[2][2] # buf[3][2]
    /\ value_at_or_before(buf, buf[2][1]) = Some(<<buf[3][2], buf[3][3]>>)
    /\ value_at_or_before(buf, buf[1][1] - 1) = None

\* C12: _classify returns NA for an absent value, UP for value >= up, DOWN
\* for value < up and value <= -down, FLAT otherwise, whatever the
\* thresholds; each trend function classifies a series from that series'
\* value and thresholds alone, so its result for one series is the same
\* whatever the other series' value and thresholds are.
C12_Classify ==
    LET Expected(v, up, down) ==
            IF IsNone(v) THEN "NA"
            ELSE IF Get(v) >= up THEN "UP"
            ELSE IF Get(v) < up /\ Get(v) <= -down THEN "DOWN"
            ELSE "FLAT"
        a == sig.args
    IN  /\ sig.fn = "_classify" => sig.out = Expected(a[1], a[2], a[3])
        /\ sig.fn \in {"trend_from_abs_deltas", "trend_from_pct_changes"} =>
             /\ sig.out.spx = Expected(a[1], a[3], a[4])
             /\ sig.out.vix = Expected(a[2], a[5], a[6])
        /\ sig.fn = "trend_from_abs_deltas" =>
             \A w \in SigValues, th \in ThresholdPairs :
                /\ trend_from_abs_deltas(a[1], w, a[3], a[4], th[1], th[2]).spx = sig.out.spx
                /\ trend_from_abs_deltas(w, a[2], th[1], th[2], a[5], a[6]).vix = sig.out.vix
        /\ sig.fn = "trend_from_pct_changes" =>
             \A w \in SigValues, th \in ThresholdPairs :
                /\ trend_from_pct_changes(a[1], w, a[3], a[4], th[1], th[2]).spx = sig.out.spx
                /\ trend_from_pct_changes(w, a[2], th[1], th[2], a[5], a[6]).vix = sig.out.vix

\* a trend call with asymmetric thresholds in which the first series sits
\* exactly on its up threshold (UP) and the second exactly on minus its down
\* threshold (DOWN)
C12_Witness ==
    /\ sig.fn = "trend_from_abs_deltas"
    /\ sig.args[3] # sig.args[4]
    /\ sig.args[1] = Some(sig.args[3])
    /\ sig.args[2] = Some(-sig.args[6])
    /\ sig.args[2] # Some(sig.args[5])
    /\ sig.out = TrendSignal("UP", "DOWN")

\* the step of a logging run that is a log() call, and the call it adds to
\* the history
LogCallStep == Len(calls') = Len(calls) + 1
ThisCall == calls'[Len(calls')]

\* the row a log() call has just written: the last row of the file, once
\* what waits in the handle after a refused or partly accepted flush has
\* joined it
RowWritten ==
    LET rows == FlushedDir(fs', file')[file.path]
    IN  rows[Len(rows)]

\* the log() call has written its row into the handle: it returned, or only
\* its flush was refused
RowBuffered == last'["main"].outcome = "ok" \/ last'["main"].at = "flush"

\* the first of the columns of the k-th horizon, less one
HorizonBase(k, pct) == 5 + (k - 1) * (IF pct THEN 4 ELSE 2)

\* C13: when log() writes a row with percent columns and the value it
\* looked up for a series at a horizon is exactly zero, the row has that
\* series' absolute delta (the logged value minus zero) and an empty percent
\* field for that horizon, and the orchestrator's percent-change trend of
\* that series is NA.
C13_ZeroPast ==
    [][LogCallStep /\ ThisCall.ok /\ options.include_percent_columns =>
        \A k \in 1..Len(horizons) :
           LET past == value_at_or_before(buf', ThisCall.ts - horizons[k])
               col == HorizonBase(k, TRUE)
               q == PctDefaults
               sig_pct(past_spx, past_vix) ==
                   trend_from_pct_changes(Hundredths(main_pct(ThisCall.spx, past_spx)),
                                          Hundredths(main_pct(ThisCall.vix, past_vix)),
                                          q[1], q[2], q[3], q[4])
           IN  ~IsNone(past) =>
                 /\ Get(past)[1] = 0 =>
                      /\ RowWritten[col + 1] = FmtFloat(ThisCall.spx)
                      /\ RowWritten[col + 3] = ""
                      /\ sig_pct(Get(past)[1], Get(past)[2]).spx = "NA"
                 /\ Get(past)[2] = 0 =>
                      /\ RowWritten[col + 2] = FmtFloat(ThisCall.vix)
                      /\ RowWritten[col + 4] = ""
                      /\ sig_pct(Get(past)[1], Get(past)[2]).vix = "NA"
    ]_vars

\* a written row whose 1-second lookup found a sample with a zero second
\* value: both deltas and the first percent field are filled, the second
\* percent field is empty
C13_Witness ==
    /\ options.include_percent_columns
    /\ Len(horizons) > 0
    /\ Len(calls) >= 2
    /\ calls[Len(calls)].ok
    /\ last["main"] = [op |-> "log", outcome |-> "ok", at |-> "", closedAtCall |-> FALSE,
                       marker |-> FALSE]
    /\ calls[Len(calls) - 1].vix = 0
    /\ calls[Len(calls) - 1].ts + horizons[1] = calls[Len(calls)].ts
    /\ LET row == fs[file.path][Len(fs[file.path])]
       IN  /\ row[6] # ""
           /\ row[7] = FmtFloat(calls[Len(calls)].vix)
           /\ row[8] # ""
           /\ row[9] = ""

\* every log() call since construction wrote its row, exactly one second
\* after the call before it, and rotate_now() was not called
SteadyCadence ==
    /\ ops = Len(calls)
    /\ \A i \in 1..Len(calls) : calls[i].ok
    /\ \A i \in 1..(Len(calls) - 1) : calls[i + 1].ts = calls[i].ts + 1

\* C14: at a 1-second cadence without rotation the file holds the header
\* and one row per call; for every horizon h the first h rows have that
\* horizon's columns empty and every later row has, as its absolute deltas
\* at h, the logged values minus the values logged h calls earlier.
C14_RollingAtCadence ==
    SteadyCadence =>
      LET pct == options.include_percent_columns
          rows == fs[file.path]
      IN  /\ Len(rows) = 1 + Len(calls)
          /\ \A i \in 1..Len(calls), k \in 1..Len(horizons) :
               LET row == rows[i + 1]
                   h == horizons[k]
                   col == HorizonBase(k, pct)
               IN  IF i <= h
                   THEN \A c \in (col + 1)..(col + (IF pct THEN 4 ELSE 2)) : row[c] = ""
                   ELSE /\ row[col + 1] = FmtFloat(calls[i].spx - calls[i - h].spx)
                        /\ row[col + 2] = FmtFloat(calls[i].vix - calls[i - h].vix)

\* three rows a second apart with horizons 1 and 2, the first series going
\* 1, 1, 2: the third row is the first with 2-second columns, and its
\* deltas are 1.0 at both horizons
C14_Witness ==
    /\ SteadyCadence
    /\ horizons = <<1, 2>>
    /\ Len(calls) = 3
    /\ calls[1].spx = 1 /\ calls[2].spx = 1 /\ calls[3].spx = 2
    /\ LET rows == fs[file.path]
           col == HorizonBase(2, options.include_percent_columns)
       IN  /\ rows[2][6] = ""
           /\ rows[3][6] = "0.0"
           /\ rows[3][col + 1] = ""
           /\ rows[4][6] = "1.0"
           /\ rows[4][col + 1] = "1.0"

\* C15: the writer's horizons are the strictly positive configured values,
\* each once, in ascending order, whatever else the configuration holds;
\* the header and every row it writes have the five fixed columns and one
\* group of columns per such horizon, named after it, and the retention
\* horizon is the largest of them (0 when there is none).
C15_Horizons ==
    LET cfg == options.rolling_horizons_seconds
        pos == {cfg[i] : i \in {j \in 1..Len(cfg) : cfg[j] > 0}}
        pct == options.include_percent_columns
        width == 5 + Cardinality(pos) * (IF pct THEN 4 ELSE 2)
    IN  /\ Len(horizons) = Cardinality(pos)
        /\ {horizons[k] : k \in 1..Len(horizons)} = pos
        /\ \A k \in 1..(Len(horizons) - 1) : horizons[k] < horizons[k + 1]
        /\ MaxHorizon(horizons) = (IF pos = {} THEN 0
                                    ELSE CHOOSE m \in pos : \A n \in pos : n <= m)
        /\ Len(Header) = width
        /\ \A k \in 1..Len(horizons) :
              Header[HorizonBase(k, pct) + 1] = "dSPX_" \o ToString(horizons[k]) \o "s"
        /\ \A p \in opened : \A i \in 1..Len(Content(p)) : Len(Content(p)[i]) = width

\* a writer configured with a repeated, a zero and a negative horizon that
\* was constructed with horizons 1 and 2 and has written a row
C15_Witness ==
    /\ options.rolling_horizons_seconds = <<2, 0, -1, 1, 2>>
    /\ horizons = <<1, 2>>
    /\ fs[file.path][1] = Header
    /\ Len(fs[file.path]) >= 2
    /\ last["main"].op = "log"
    /\ last["main"].outcome = "ok"

\* C16: after every log() call the buffer holds, in the order they were
\* logged, the most recent samples of the history, ending with the one
\* just logged, with non-decreasing timestamps; with a positive max horizon
\* every retained timestamp lies in [now - (max horizon + 5), now], and
\* with max horizon 0 the call only appends, trimming nothing.
C16_BufferWindow ==
    [][LogCallStep =>
        LET now == ThisCall.ts
            maxh == MaxHorizon(horizons)
            n == Len(buf')
            m == Len(calls')
        IN  /\ n >= 1 /\ n <= m
            /\ \A i \in 1..n :
                  buf'[i] = <<calls'[m - n + i].ts, calls'[m - n + i].spx, calls'[m - n + i].vix>>
            /\ \A i \in 1..(n - 1) : buf'[i][1] <= buf'[i + 1][1]
            /\ maxh > 0 =>
                  \A i \in 1..n : buf'[i][1] >= now - (maxh + SafetyMargin) /\ buf'[i][1] <= now
            /\ maxh = 0 => buf' = Append(buf, <<now, ThisCall.spx, ThisCall.vix>>)
    ]_vars

\* with horizons 1 and 2, a buffer from which log() has trimmed the oldest
\* sample and kept one that is exactly max horizon + 5 seconds old
C16_Witness ==
    /\ horizons = <<1, 2>>
    /\ last["main"].op = "log"
    /\ Len(buf) >= 2
    /\ Len(buf) < Len(calls)
    /\ buf[Len(buf)][1] = clock
    /\ buf[1][1] = clock - (2 + SafetyMargin)
    /\ calls[1].ts < clock - (2 + SafetyMargin)

\* C17: the rows log() writes to the file are those of its successful
\* calls: a call that returns has appended one row, with the timestamp and
\* the values of the call and with immediate deltas that are empty exactly
\* when it is the first successful call since construction or the last
\* rotation and otherwise are the logged values minus the values of the
\* latest successful call, and has then made the logged values the previous
\* sample; a call that raises adds no row to the file and leaves the
\* previous sample alone.
C17_ImmediateDeltas ==
    [][LogCallStep =>
        LET c == ThisCall
            written == {i \in 1..Len(calls) : calls[i].ok}
        IN  IF c.ok
            THEN /\ fs' = [fs EXCEPT ![file.path] = Append(@, RowWritten)]
                 /\ RowWritten[1] = fmt_ts_ms(c.ts)
                 /\ RowWritten[2] = FmtFloat(c.spx)
                 /\ RowWritten[3] = FmtFloat(c.vix)
                 /\ IF written = {}
                    THEN RowWritten[4] = "" /\ RowWritten[5] = ""
                    ELSE LET j == CHOOSE i \in written : \A n \in written : n <= i
                         IN  /\ RowWritten[4] = FmtFloat(c.spx - calls[j].spx)
                             /\ RowWritten[5] = FmtFloat(c.vix - calls[j].vix)
                 /\ prev_spx' = Some(c.spx)
                 /\ prev_vix' = Some(c.vix)
            ELSE UNCHANGED <<fs, prev_spx, prev_vix>>
    ]_vars

\* consecutive log() calls of the history are at most the safety margin
\* apart
CloseCalls(h) == \A i \in 1..(Len(h) - 1) : h[i + 1].ts - h[i].ts <= SafetyMargin

\* C18: when the log() calls since construction or the last rotation are at
\* most 5 seconds apart, then in every log() call and for every horizon h
\* for which some call of that history has a timestamp <= now - h, the
\* lookup at now - h finds the latest such call's sample in the trimmed
\* buffer, and a row that gets written (at once, or by a later flush when
\* the call's own flush was refused) has that horizon's deltas filled.
C18_TrimKeepsNeeded ==
    [][LogCallStep /\ CloseCalls(calls') =>
        \A k \in 1..Len(horizons) :
           LET target == ThisCall.ts - horizons[k]
               old == {i \in 1..Len(calls') : calls'[i].ts <= target}
               found == value_at_or_before(buf', target)
               col == HorizonBase(k, options.include_percent_columns)
           IN  old # {} =>
                 LET j == CHOOSE i \in old : \A n \in old : n <= i
                 IN  /\ found = Some(<<calls'[j].spx, calls'[j].vix>>)
                     /\ RowBuffered =>
                          /\ RowWritten[1] = fmt_ts_ms(ThisCall.ts)
                          /\ RowWritten[col + 1] = FmtFloat(ThisCall.spx - calls'[j].spx)
                          /\ RowWritten[col + 2] = FmtFloat(ThisCall.vix - calls'[j].vix)
    ]_vars

\* three calls 4 seconds apart with horizons 1 and 2: the third call has
\* trimmed the first sample, and its row has the 2-second deltas, taken
\* against the second call
C18_Witness ==
    /\ horizons = <<1, 2>>
    /\ Len(calls) = 3
    /\ calls[2].ts = calls[1].ts + 4
    /\ calls[3].ts = calls[2].ts + 4
    /\ calls[3].ok
    /\ Len(buf) = 2
    /\ last["main"].op = "log"
    /\ LET row == fs[file.path][Len(fs[file.path])]
           col == HorizonBase(2, options.include_percent_columns)
       IN  /\ row[1] = fmt_ts_ms(calls[3].ts)
           /\ row[col + 1] = FmtFloat(calls[3].spx - calls[2].spx)

\* the step with which a log() call of the orchestrator returns after
\* writing its row
LogWritten ==
    /\ pc["main"] = "log_write"
    /\ pc'["main"] = "idle"
    /\ last'["main"].outcome = "ok"

\* the files a writer names for date string d
PathsOfDate(d) ==
    {CanonicalPath(d)} \cup {FallbackPath(d, ny_time_str(u)) : u \in StartClock..MaxClock}

\* C19: with rotate_at_midnight on, every row log() writes goes to a file
\* whose date key and whose name carry the local date of the row's
\* timestamp, however the log() calls and the midnight callback interleave.
C19_DatePartition ==
    [][LogWritten /\ options.rotate_at_midnight =>
        LET date == ny_date_str(calls[Len(calls)].ts)
        IN  /\ loc["main"].row[1] = fmt_ts_ms(calls[Len(calls)].ts)
            /\ current_date = date
            /\ file.path \in PathsOfDate(date)
    ]_vars

\* C20: a log() call whose write or flush fails raises the failure and
\* leaves the previous sample and the rolling buffer as they were before
\* the call, so that every sample in the buffer is one whose row was
\* written.
C20_FailedLogUnchanged ==
    [][LogCallStep /\ ~ThisCall.ok =>
        /\ last'["main"].op = "log"
        /\ last'["main"].outcome \in {"OSError", "ValueError"}
        /\ UNCHANGED <<prev_spx, prev_vix, buf>>
    ]_vars
====
